---- MODULE Spec2Model ----
(***************************************************************************)
(* QuantizedDistribution (contrib/distributions quantized_distribution.py) *)
(* as a state machine: one object is constructed, then queried.            *)
(*                                                                         *)
(* Encoding of numbers.                                                    *)
(*   - A coordinate (y, a cutoff, a base sample x) is an integer h that    *)
(*     stands for the real h/2, so whole numbers are the even h.           *)
(*   - A probability is an integer p that stands for p/Den.                *)
(*   - Other reals are records [t, n, d]: the fraction n/d in lowest terms *)
(*     when t = "fin", and +infinity, -infinity, NaN otherwise.            *)
(*   - A log-space number x is the record [q |-> exp(x)]: log and exp move *)
(*     between the two, and log-space +/- are computed on the fractions.   *)
(*   - An optional value is <<>> when it is None and <<v>> otherwise.      *)
(***************************************************************************)
EXTENDS Integers, Sequences, FiniteSets, TLC

VARIABLES pc, args, raised, self, last

vars == <<pc, args, raised, self, last>>

\* Probabilities of the base distribution are multiples of 1/Den.
Den == 2

\* Cutoffs are drawn from [0, CutMax]; coordinates from [-1, CutMax + 1].
CutMax == 2

None == <<>>

Some(v) == <<v>>

Coords == (-2)..(2 * (CutMax + 1))

----------------------------------------------------------------------------
(* Real and log-space arithmetic used by the module's tensor expressions.  *)

Abs(n) == IF n < 0 THEN -n ELSE n

RECURSIVE GCD(_, _)
GCD(a, b) == IF b = 0 THEN a ELSE GCD(b, a % b)

Frac(n, d) == LET g == GCD(Abs(n), d) IN [t |-> "fin", n |-> n \div g, d |-> d \div g]

PosInf == [t |-> "pinf", n |-> 1, d |-> 1]

NegInfReal == [t |-> "ninf", n |-> -1, d |-> 1]

NaNReal == [t |-> "nan", n |-> 0, d |-> 1]

\* 1. - r
OneMinus(r) ==
    CASE r.t = "fin" -> Frac(r.d - r.n, r.d)
      [] r.t = "pinf" -> NegInfReal
      [] r.t = "ninf" -> PosInf
      [] OTHER -> NaNReal

NaN == [q |-> NaNReal]

\* -np.inf * ones_like(.), the log of probability 0
neg_inf == [q |-> Frac(0, 1)]

\* zeros_like(.) in log space, the log of probability 1
log_zero == [q |-> Frac(1, 1)]

IsNaN(x) == x.q.t = "nan"

\* math_ops.log: NaN on a negative argument, -infinity at 0
log(r) ==
    CASE r.t = "fin" /\ r.n >= 0 -> [q |-> r]
      [] r.t = "pinf" -> [q |-> PosInf]
      [] OTHER -> NaN

\* math_ops.exp
exp(x) == x.q

\* a - b on log-space numbers: the log of the quotient; inf - inf is NaN
LogMinus(a, b) ==
    CASE a.q.t = "nan" \/ b.q.t = "nan" -> NaN
      [] a.q.t = "pinf" /\ b.q.t = "pinf" -> NaN
      [] a.q.t = "pinf" -> [q |-> PosInf]
      [] b.q.t = "pinf" -> [q |-> Frac(0, 1)]
      [] a.q.n = 0 /\ b.q.n = 0 -> NaN
      [] b.q.n = 0 -> [q |-> PosInf]
      [] OTHER -> [q |-> Frac(a.q.n * b.q.d, a.q.d * b.q.n)]

\* a + b on log-space numbers: the log of the product; inf + (-inf) is NaN
LogPlus(a, b) ==
    CASE a.q.t = "nan" \/ b.q.t = "nan" -> NaN
      [] a.q.t = "pinf" /\ b.q.t = "pinf" -> [q |-> PosInf]
      [] a.q.t = "pinf" -> IF b.q.n = 0 THEN NaN ELSE [q |-> PosInf]
      [] b.q.t = "pinf" -> IF a.q.n = 0 THEN NaN ELSE [q |-> PosInf]
      [] OTHER -> [q |-> Frac(a.q.n * b.q.n, a.q.d * b.q.d)]

\* a < b on log-space numbers (false when either is NaN)
LogLess(a, b) ==
    CASE a.q.t = "nan" \/ b.q.t = "nan" -> FALSE
      [] a.q.t = "pinf" -> FALSE
      [] b.q.t = "pinf" -> TRUE
      [] OTHER -> a.q.n * b.q.d < b.q.n * a.q.d

LogLeq(a, b) == ~IsNaN(a) /\ ~IsNaN(b) /\ ~LogLess(b, a)

\* math_ops.floor and math_ops.ceil on a coordinate in half units
floor(h) == 2 * (h \div 2)

ceil(h) == -floor(-h)

----------------------------------------------------------------------------
(* The base distribution: the capability interface the class consumes.     *)
(* Its cdf is a non-decreasing table over the whole numbers 0, 1 and 2,    *)
(* constant to the left of 0 and to the right of 2; its survival function  *)
(* is the complement of its cdf, and its log functions are their logs.     *)

Attrs == {"_cdf", "_log_cdf", "_survival_function", "_log_survival_function"}

TablePts == {0, 1, 2}

Tables == {f \in [TablePts -> 0..Den] : f[0] <= f[1] /\ f[1] <= f[2]}

hasattr(b, name) == name \in b.caps

TableAt(b, j) == b.table[IF j < 0 THEN 0 ELSE IF j > 4 THEN 2 ELSE j \div 2]

base_cdf(b, j) == TableAt(b, j)

base_survival_function(b, j) == Den - TableAt(b, j)

base_log_cdf(b, j) == log(Frac(base_cdf(b, j), Den))

base_log_survival_function(b, j) == log(Frac(base_survival_function(b, j), Den))

\* distribution_util.assert_integer_form: the value is a whole number
assert_integer_form(value) == value % 2 = 0

\* check_ops.assert_less
assert_less(x, y) == x < y

----------------------------------------------------------------------------
(* The object.                                                             *)

NoSelf ==
    [_base_dist |-> None, _lower_cutoff |-> None, _upper_cutoff |-> None,
     validate_args |-> FALSE, parameters |-> None]

Ok(v) == [raised |-> "none", value |-> Some(v)]

Raise(e) == [raised |-> e, value |-> None]

base_distribution(s) == s._base_dist[1]

\* None when the integrality assertion fails, the value otherwise
_check_integer(s, value) ==
    IF ~s.validate_args
    THEN Some(value)
    ELSE IF assert_integer_form(value) THEN Some(value) ELSE None

issubclass(base_dist_cls) == base_dist_cls.distribution

\* Faulty variant of __init__: the ordering assertion is attached only when
\* validation is disabled.
__init__checks_inverted(base_dist_cls, lower_cutoff, upper_cutoff, base_dist_args) ==
    IF ~issubclass(base_dist_cls)
    THEN [raised |-> "TypeError", self |-> NoSelf]
    ELSE
      LET b == [table |-> base_dist_args.table,
                caps |-> base_dist_cls.caps,
                validate_args |-> base_dist_args.validate_args]
          s0 == [NoSelf EXCEPT
                   !._base_dist = Some(b),
                   !.validate_args = b.validate_args,
                   !.parameters = Some([base_dist_cls |-> base_dist_cls,
                                        lower_cutoff |-> lower_cutoff,
                                        upper_cutoff |-> upper_cutoff,
                                        base_dist_args |-> base_dist_args])]
          checks == IF lower_cutoff # None /\ upper_cutoff # None
                    THEN assert_less(lower_cutoff[1], upper_cutoff[1])
                    ELSE TRUE
          lo == IF lower_cutoff # None THEN _check_integer(s0, lower_cutoff[1]) ELSE None
          s1 == [s0 EXCEPT !._lower_cutoff = lo]
          up == IF upper_cutoff # None THEN _check_integer(s1, upper_cutoff[1]) ELSE None
          s2 == [s1 EXCEPT !._upper_cutoff = up]
      IN  IF ~s0.validate_args /\ ~checks
          THEN [raised |-> "AssertLess", self |-> s0]
          ELSE IF lower_cutoff # None /\ lo = None
          THEN [raised |-> "AssertInteger", self |-> s0]
          ELSE IF upper_cutoff # None /\ up = None
          THEN [raised |-> "AssertInteger", self |-> s1]
          ELSE [raised |-> "none", self |-> s2]

__init__(base_dist_cls, lower_cutoff, upper_cutoff, base_dist_args) ==
    IF ~issubclass(base_dist_cls)
    THEN [raised |-> "TypeError", self |-> NoSelf]
    ELSE
      LET b == [table |-> base_dist_args.table,
                caps |-> base_dist_cls.caps,
                validate_args |-> base_dist_args.validate_args]
          s0 == [NoSelf EXCEPT
                   !._base_dist = Some(b),
                   !.validate_args = b.validate_args,
                   !.parameters = Some([base_dist_cls |-> base_dist_cls,
                                        lower_cutoff |-> lower_cutoff,
                                        upper_cutoff |-> upper_cutoff,
                                        base_dist_args |-> base_dist_args])]
          checks == IF lower_cutoff # None /\ upper_cutoff # None
                    THEN assert_less(lower_cutoff[1], upper_cutoff[1])
                    ELSE TRUE
          lo == IF lower_cutoff # None THEN _check_integer(s0, lower_cutoff[1]) ELSE None
          s1 == [s0 EXCEPT !._lower_cutoff = lo]
          up == IF upper_cutoff # None THEN _check_integer(s1, upper_cutoff[1]) ELSE None
          s2 == [s1 EXCEPT !._upper_cutoff = up]
      IN  IF s0.validate_args /\ ~checks
          THEN [raised |-> "AssertLess", self |-> s0]
          ELSE IF lower_cutoff # None /\ lo = None
          THEN [raised |-> "AssertInteger", self |-> s0]
          ELSE IF upper_cutoff # None /\ up = None
          THEN [raised |-> "AssertInteger", self |-> s1]
          ELSE [raised |-> "none", self |-> s2]

\* Faulty variant of _sample_n: snaps to the intervals [j, j + 1).
_sample_n_floor(s, x_samps) ==
    LET lower_cutoff == s._lower_cutoff
        upper_cutoff == s._upper_cutoff
        r0 == floor(x_samps)
        r1 == IF lower_cutoff # None
              THEN (IF r0 < lower_cutoff[1] THEN lower_cutoff[1] ELSE r0)
              ELSE r0
        r2 == IF upper_cutoff # None
              THEN (IF r1 > upper_cutoff[1] THEN upper_cutoff[1] ELSE r1)
              ELSE r1
    IN  r2

\* One element of the sample: x_samps is the base distribution's draw.
_sample_n(s, x_samps) ==
    LET lower_cutoff == s._lower_cutoff
        upper_cutoff == s._upper_cutoff
        r0 == ceil(x_samps)
        r1 == IF lower_cutoff # None
              THEN (IF r0 < lower_cutoff[1] THEN lower_cutoff[1] ELSE r0)
              ELSE r0
        r2 == IF upper_cutoff # None
              THEN (IF r1 > upper_cutoff[1] THEN upper_cutoff[1] ELSE r1)
              ELSE r1
    IN  r2

\* Faulty variant of _logsum_expbig_minus_expsmall: big - small in the exponent.
_logsum_operands_swapped(big, small) ==
    LogPlus(log(OneMinus(exp(LogMinus(big, small)))), big)

_logsum_expbig_minus_expsmall(big, small) ==
    LogPlus(log(OneMinus(exp(LogMinus(small, big)))), big)

_log_cdf(s, y) ==
    LET lower_cutoff == s._lower_cutoff
        upper_cutoff == s._upper_cutoff
        j == floor(y)
        r0 == base_log_cdf(base_distribution(s), j)
        r1 == IF lower_cutoff # None
              THEN (IF j < lower_cutoff[1] THEN neg_inf ELSE r0)
              ELSE r0
        r2 == IF upper_cutoff # None
              THEN (IF j >= upper_cutoff[1] THEN log_zero ELSE r1)
              ELSE r1
    IN  r2

\* Faulty variant of _cdf: the upper override misses j = upper_cutoff.
_cdf_upper_strict(s, y) ==
    LET lower_cutoff == s._lower_cutoff
        upper_cutoff == s._upper_cutoff
        j == floor(y)
        r0 == base_cdf(base_distribution(s), j)
        r1 == IF lower_cutoff # None
              THEN (IF j < lower_cutoff[1] THEN 0 ELSE r0)
              ELSE r0
        r2 == IF upper_cutoff # None
              THEN (IF j > upper_cutoff[1] THEN Den ELSE r1)
              ELSE r1
    IN  r2

_cdf(s, y) ==
    LET lower_cutoff == s._lower_cutoff
        upper_cutoff == s._upper_cutoff
        j == floor(y)
        r0 == base_cdf(base_distribution(s), j)
        r1 == IF lower_cutoff # None
              THEN (IF j < lower_cutoff[1] THEN 0 ELSE r0)
              ELSE r0
        r2 == IF upper_cutoff # None
              THEN (IF j >= upper_cutoff[1] THEN Den ELSE r1)
              ELSE r1
    IN  r2

_log_survival_function(s, y) ==
    LET lower_cutoff == s._lower_cutoff
        upper_cutoff == s._upper_cutoff
        j == ceil(y)
        r0 == base_log_survival_function(base_distribution(s), j)
        r1 == IF lower_cutoff # None
              THEN (IF j < lower_cutoff[1] THEN log_zero ELSE r0)
              ELSE r0
        r2 == IF upper_cutoff # None
              THEN (IF j >= upper_cutoff[1] THEN neg_inf ELSE r1)
              ELSE r1
    IN  r2

_survival_function(s, y) ==
    LET lower_cutoff == s._lower_cutoff
        upper_cutoff == s._upper_cutoff
        j == ceil(y)
        r0 == base_survival_function(base_distribution(s), j)
        r1 == IF lower_cutoff # None
              THEN (IF j < lower_cutoff[1] THEN Den ELSE r0)
              ELSE r0
        r2 == IF upper_cutoff # None
              THEN (IF j >= upper_cutoff[1] THEN 0 ELSE r1)
              ELSE r1
    IN  r2

\* y - 1 on a coordinate in half units
minus_1(y) == y - 2

_log_prob_with_logcdf(s, y) ==
    _logsum_expbig_minus_expsmall(_log_cdf(s, y), _log_cdf(s, minus_1(y)))

\* Faulty variant of big_small: big is selected the other way round, so an
\* element mixes a survival value with a cumulative value.
big_small_mixed(s, y) ==
    LET logsf_y == _log_survival_function(s, y)
        logsf_y_minus_1 == _log_survival_function(s, minus_1(y))
        logcdf_y == _log_cdf(s, y)
        logcdf_y_minus_1 == _log_cdf(s, minus_1(y))
    IN  [big |-> IF LogLess(logsf_y, logcdf_y) THEN logcdf_y ELSE logsf_y_minus_1,
         small |-> IF LogLess(logsf_y, logcdf_y) THEN logsf_y ELSE logcdf_y_minus_1]

\* The operands handed to _logsum_expbig_minus_expsmall on the dual path.
big_small(s, y) ==
    LET logsf_y == _log_survival_function(s, y)
        logsf_y_minus_1 == _log_survival_function(s, minus_1(y))
        logcdf_y == _log_cdf(s, y)
        logcdf_y_minus_1 == _log_cdf(s, minus_1(y))
    IN  [big |-> IF LogLess(logsf_y, logcdf_y) THEN logsf_y_minus_1 ELSE logcdf_y,
         small |-> IF LogLess(logsf_y, logcdf_y) THEN logsf_y ELSE logcdf_y_minus_1]

_log_prob_with_logsf_and_logcdf(s, y) ==
    _logsum_expbig_minus_expsmall(big_small(s, y).big, big_small(s, y).small)

_log_prob(s, y) ==
    IF ~hasattr(base_distribution(s), "_log_cdf")
    THEN Raise("AttributeError")
    ELSE IF _check_integer(s, y) = None
    THEN Raise("AssertInteger")
    ELSE IF hasattr(base_distribution(s), "_log_survival_function")
    THEN Ok(_log_prob_with_logsf_and_logcdf(s, y))
    ELSE Ok(_log_prob_with_logcdf(s, y))

\* Faulty variant of _prob_with_cdf: the mass of the interval (y, y + 1].
_prob_with_cdf_shifted(s, y) == _cdf(s, y + 2) - _cdf(s, y)

_prob_with_cdf(s, y) == _cdf(s, y) - _cdf(s, minus_1(y))

\* Faulty variant of _prob_with_sf_and_cdf: the survival difference is taken
\* the wrong way round.
_prob_with_sf_and_cdf_swapped(s, y) ==
    LET sf_y == _survival_function(s, y)
        sf_y_minus_1 == _survival_function(s, minus_1(y))
        cdf_y == _cdf(s, y)
        cdf_y_minus_1 == _cdf(s, minus_1(y))
    IN  IF sf_y < cdf_y THEN sf_y - sf_y_minus_1 ELSE cdf_y - cdf_y_minus_1

_prob_with_sf_and_cdf(s, y) ==
    LET sf_y == _survival_function(s, y)
        sf_y_minus_1 == _survival_function(s, minus_1(y))
        cdf_y == _cdf(s, y)
        cdf_y_minus_1 == _cdf(s, minus_1(y))
    IN  IF sf_y < cdf_y THEN sf_y_minus_1 - sf_y ELSE cdf_y - cdf_y_minus_1

\* Faulty variant of _prob: the integrality check runs before the capability
\* check.
_prob_check_first(s, y) ==
    IF _check_integer(s, y) = None
    THEN Raise("AssertInteger")
    ELSE IF ~hasattr(base_distribution(s), "_cdf")
    THEN Raise("AttributeError")
    ELSE IF hasattr(base_distribution(s), "_survival_function")
    THEN Ok(_prob_with_sf_and_cdf(s, y))
    ELSE Ok(_prob_with_cdf(s, y))

_prob(s, y) ==
    IF ~hasattr(base_distribution(s), "_cdf")
    THEN Raise("AttributeError")
    ELSE IF _check_integer(s, y) = None
    THEN Raise("AssertInteger")
    ELSE IF hasattr(base_distribution(s), "_survival_function")
    THEN Ok(_prob_with_sf_and_cdf(s, y))
    ELSE Ok(_prob_with_cdf(s, y))

\* A base distribution asked for a function it does not implement refuses.
BaseCall(s, name, v) ==
    IF hasattr(base_distribution(s), name) THEN Ok(v) ELSE Raise("NotImplementedError")

----------------------------------------------------------------------------
(* The state machine: pc is "new" before the constructor runs, "failed"    *)
(* when it raised, "built" while the object waits for a call, "called"     *)
(* while a call's outcome is with the caller and "recovered" while the     *)
(* object waits for a call after one that raised.  args holds the          *)
(* constructor's arguments, raised its exception, last the call in         *)
(* progress.                                                               *)

NoCall == [op |-> "none", arg |-> 0, out |-> Raise("none")]

Classes == [distribution : BOOLEAN, caps : SUBSET Attrs]

BaseArgs == [table : Tables, validate_args : BOOLEAN]

\* Cutoff arguments: absent, a whole number of [0, CutMax], or the fraction 1/2.
CutoffArgs == {None} \cup {Some(2 * c) : c \in 0..CutMax} \cup {Some(1)}

Init ==
    /\ pc = "new"
    /\ args = None
    /\ raised = "none"
    /\ self = NoSelf
    /\ last = NoCall

Construct ==
    /\ pc = "new"
    /\ \E base_dist_cls \in Classes, lower_cutoff \in CutoffArgs,
          upper_cutoff \in CutoffArgs, base_dist_args \in BaseArgs :
          LET r == __init__(base_dist_cls, lower_cutoff, upper_cutoff, base_dist_args)
          IN  /\ pc' = IF r.raised = "none" THEN "built" ELSE "failed"
              /\ args' = Some([base_dist_cls |-> base_dist_cls,
                               lower_cutoff |-> lower_cutoff,
                               upper_cutoff |-> upper_cutoff,
                               base_dist_args |-> base_dist_args])
              /\ raised' = r.raised
              /\ self' = r.self
    /\ UNCHANGED last

\* Faulty variant of Call: a call that raises leaves the object without its
\* cutoffs.
CallDropsCutoffsOnError(op, arg, out) ==
    /\ pc \in {"built", "recovered"}
    /\ pc' = "called"
    /\ last' = [op |-> op, arg |-> arg, out |-> out]
    /\ self' = IF out.raised = "none"
               THEN self
               ELSE [self EXCEPT !._lower_cutoff = None, !._upper_cutoff = None]
    /\ UNCHANGED <<args, raised>>

\* A call on the constructed object: its argument and outcome are the
\* caller's, and nothing of the object is assigned.
Call(op, arg, out) ==
    /\ pc \in {"built", "recovered"}
    /\ pc' = "called"
    /\ last' = [op |-> op, arg |-> arg, out |-> out]
    /\ UNCHANGED <<args, raised, self>>

\* The call is over: its transient state is dropped and the object can be
\* called again, after a call that returned as after one that raised.
Return ==
    /\ pc = "called"
    /\ pc' = IF last.out.raised = "none" THEN "built" ELSE "recovered"
    /\ last' = NoCall
    /\ UNCHANGED <<args, raised, self>>

sample_n == \E x \in Coords : Call("sample_n", x, Ok(_sample_n(self, x)))

log_prob == \E y \in Coords : Call("log_prob", y, _log_prob(self, y))

prob == \E y \in Coords : Call("prob", y, _prob(self, y))

log_cdf ==
    \E y \in Coords : Call("log_cdf", y, BaseCall(self, "_log_cdf", _log_cdf(self, y)))

cdf == \E y \in Coords : Call("cdf", y, BaseCall(self, "_cdf", _cdf(self, y)))

log_survival_function ==
    \E y \in Coords :
        Call("log_survival_function", y,
             BaseCall(self, "_log_survival_function", _log_survival_function(self, y)))

survival_function ==
    \E y \in Coords :
        Call("survival_function", y,
             BaseCall(self, "_survival_function", _survival_function(self, y)))

Next ==
    \/ Construct
    \/ sample_n
    \/ log_prob
    \/ prob
    \/ log_cdf
    \/ cdf
    \/ log_survival_function
    \/ survival_function
    \/ Return

Spec == Init /\ [][Next]_vars

----------------------------------------------------------------------------
(* Vocabulary of the properties.                                           *)

Returned(op) == pc = "called" /\ last.op = op /\ last.out.raised = "none"

Result == last.out.value[1]

HasLower == self._lower_cutoff # None

HasUpper == self._upper_cutoff # None

L == self._lower_cutoff[1]

U == self._upper_cutoff[1]

IsWholeNumber(h) == h % 2 = 0

\* Cutoffs as the constructor's contract wants them: each absent or a whole
\* number, and lower < upper when both are given.
CutoffsWhole ==
    /\ HasLower => IsWholeNumber(L)
    /\ HasUpper => IsWholeNumber(U)

CutoffsOrdered == (HasLower /\ HasUpper) => L < U

\* The whole number j with j <= h < j + 1, and the one with j - 1 < h <= j.
FloorOf(h) == CHOOSE j \in (-8)..16 : IsWholeNumber(j) /\ j <= h /\ h < j + 2

CeilOf(h) == CHOOSE j \in (-8)..16 : IsWholeNumber(j) /\ j - 2 < h /\ h <= j

BaseCdf(j) == base_cdf(self._base_dist[1], j)

\* C1: for every real y and cutoffs absent or with L < U, cdf(y) is 0 when
\* floor(y) < L, 1 when floor(y) >= U and the base cdf at floor(y) otherwise
\* (so, at whole cutoffs, cdf(U) = 1 and cdf(L - 1) = 0 whatever the base cdf
\* is there); log_cdf decides the same way with -infinity, 0 and the base
\* log_cdf.
C1_CdfByFloor ==
    LET j == FloorOf(last.arg)
        below == HasLower /\ j < L
        above == HasUpper /\ j >= U
    IN  /\ (Returned("cdf") /\ CutoffsOrdered) =>
              /\ Result = IF below THEN 0 ELSE IF above THEN Den ELSE BaseCdf(j)
              /\ (HasUpper /\ IsWholeNumber(U) /\ last.arg = U) => Result = Den
              /\ (HasLower /\ IsWholeNumber(L) /\ last.arg = L - 2) => Result = 0
        /\ (Returned("log_cdf") /\ CutoffsOrdered) =>
              /\ Result = IF below THEN neg_inf
                          ELSE IF above THEN log_zero
                          ELSE log(Frac(BaseCdf(j), Den))
              /\ (HasUpper /\ IsWholeNumber(U) /\ last.arg = U) => Result = log_zero
              /\ (HasLower /\ IsWholeNumber(L) /\ last.arg = L - 2) => Result = neg_inf

\* cdf at the fractional 2.5 with cutoffs 0 and 2, where the base cdf is 1/2.
C1_Witness ==
    /\ Returned("cdf") /\ HasLower /\ HasUpper /\ L = 0 /\ U = 4
    /\ last.arg = 5 /\ BaseCdf(4) = 1 /\ Result = Den

\* C2: for whole y and whole cutoffs L < U, prob(y) is the base cdf at L for
\* y = L, 1 - base_cdf(U - 1) for y = U, base_cdf(y) - base_cdf(y - 1) for
\* L < y < U and 0 outside [L, U], on the cdf-only path and on the dual path
\* alike; so prob(y) = cdf(y) - cdf(y - 1) on both.
C2_ProbByCases ==
    (/\ Returned("prob") /\ IsWholeNumber(last.arg)
     /\ HasLower /\ HasUpper /\ CutoffsWhole /\ L < U) =>
        LET y == last.arg IN
        /\ Result = CASE y = L -> BaseCdf(L)
                      [] y = U -> Den - BaseCdf(U - 2)
                      [] L < y /\ y < U -> BaseCdf(y) - BaseCdf(y - 2)
                      [] OTHER -> 0
        /\ Result = _cdf(self, y) - _cdf(self, y - 2)

\* prob on the dual path at an interior point with positive mass.
C2_Witness ==
    /\ Returned("prob") /\ HasLower /\ HasUpper /\ L = 0 /\ U = 4
    /\ last.arg = 2 /\ Result = 1
    /\ hasattr(self._base_dist[1], "_survival_function")

\* C3: survival_function(y) = 1 - cdf(y) for every real y, whole or
\* fractional, and every cutoff configuration.
C3_SurvivalIsComplement ==
    Returned("survival_function") => Result = Den - _cdf(self, last.arg)

\* C4: sample_n maps a base draw x to ceil(x) without cutoffs, replaces a
\* ceil(x) below L by L and one above U by U; for L < U every sample lies in
\* [L, U] (and is a whole number, the cutoffs being whole), and a ceil(x)
\* already inside [L, U] is returned unchanged.
C4_SampleCeilClamp ==
    (Returned("sample_n") /\ CutoffsOrdered) =>
        LET c == CeilOf(last.arg) IN
        /\ Result = IF HasLower /\ c < L THEN L
                    ELSE IF HasUpper /\ c > U THEN U
                    ELSE c
        /\ (HasLower /\ HasUpper) => (L <= Result /\ Result <= U)
        /\ CutoffsWhole => IsWholeNumber(Result)

\* A fractional draw below the lower cutoff is replaced by the cutoff.
C4_Witness ==
    /\ Returned("sample_n") /\ HasLower /\ HasUpper /\ L = 2 /\ U = 4
    /\ last.arg = -1 /\ Result = 2

\* C5: for whole y with prob(y) > 0, log_prob(y) = log(prob(y)) and is not
\* NaN, on the log_cdf-only path and on the dual path, cutoff values of y
\* included.
C5_LogProbIsLogOfProb ==
    (/\ Returned("log_prob") /\ IsWholeNumber(last.arg)
     /\ _prob_with_cdf(self, last.arg) > 0) =>
        /\ ~IsNaN(Result)
        /\ Result = log(Frac(_prob_with_cdf(self, last.arg), Den))

\* log_prob on the dual path at the upper cutoff, where log_sf(y) is -infinity.
C5_Witness ==
    /\ Returned("log_prob") /\ HasLower /\ HasUpper /\ L = 0 /\ U = 4
    /\ last.arg = 4 /\ _prob_with_cdf(self, 4) = 1
    /\ hasattr(self._base_dist[1], "_log_survival_function")
    /\ Result = log(Frac(1, Den))

Arg == args[1]

\* What a call op(arg) returns on the object s.
Outcome(s, op, arg) ==
    CASE op = "sample_n" -> Ok(_sample_n(s, arg))
      [] op = "log_prob" -> _log_prob(s, arg)
      [] op = "prob" -> _prob(s, arg)
      [] op = "log_cdf" -> BaseCall(s, "_log_cdf", _log_cdf(s, arg))
      [] op = "cdf" -> BaseCall(s, "_cdf", _cdf(s, arg))
      [] op = "log_survival_function" ->
            BaseCall(s, "_log_survival_function", _log_survival_function(s, arg))
      [] op = "survival_function" ->
            BaseCall(s, "_survival_function", _survival_function(s, arg))

C7_UnsupportedWithoutCdf ==
    LET b == self._base_dist[1]
        y == last.arg
        accepted == ~self.validate_args \/ IsWholeNumber(y)
    IN  /\ (pc = "called" /\ last.op = "prob") =>
              /\ ~hasattr(b, "_cdf") => last.out = Raise("AttributeError")
              /\ (hasattr(b, "_cdf") /\ ~hasattr(b, "_survival_function")) =>
                    /\ last.out.raised # "AttributeError"
                    /\ accepted => last.out = Ok(_cdf(self, y) - _cdf(self, y - 2))
        /\ (pc = "called" /\ last.op = "log_prob") =>
              /\ ~hasattr(b, "_log_cdf") => last.out = Raise("AttributeError")
              /\ (hasattr(b, "_log_cdf") /\ ~hasattr(b, "_log_survival_function")) =>
                    /\ last.out.raised # "AttributeError"
                    /\ accepted =>
                          last.out = Ok(_logsum_expbig_minus_expsmall(
                                            _log_cdf(self, y), _log_cdf(self, y - 2)))

\* prob at a fractional y, under validation, on a base distribution that has
\* a survival function but no cdf.
C7_Witness ==
    /\ pc = "called" /\ last.op = "prob" /\ last.arg = 1
    /\ self.validate_args
    /\ self._base_dist[1].caps = {"_survival_function"}
    /\ last.out = Raise("AttributeError")

\* C8: after construction the object is read-only: through any sequence of
\* calls, failing ones included, the stored cutoffs, base distribution and
\* validation flag are the ones the constructor stored, and a call returns
\* what it returns on the freshly constructed object.
C8_ReadOnlyAfterConstruction ==
    pc \in {"built", "called", "recovered"} =>
        LET fresh == __init__(Arg.base_dist_cls, Arg.lower_cutoff,
                              Arg.upper_cutoff, Arg.base_dist_args).self
        IN  /\ self = fresh
            /\ pc = "called" => last.out = Outcome(fresh, last.op, last.arg)

\* An object with both cutoffs, under validation, after a call that raised.
C8_Witness ==
    /\ pc = "recovered" /\ self.validate_args
    /\ HasLower /\ HasUpper /\ L = 0 /\ U = 4

\* C9: in log_prob at whole y, with any cutoffs, the operands of the stable
\* log-difference satisfy small <= big, and on the dual path they are the pair
\* (logsf(y-1), logsf(y)) when logsf(y) < logcdf(y) and the pair
\* (logcdf(y), logcdf(y-1)) otherwise.
C9_OperandsOrderedSamePair ==
    (Returned("log_prob") /\ IsWholeNumber(last.arg)) =>
        LET y == last.arg
            logsf_y == _log_survival_function(self, y)
            logsf_y_minus_1 == _log_survival_function(self, y - 2)
            logcdf_y == _log_cdf(self, y)
            logcdf_y_minus_1 == _log_cdf(self, y - 2)
        IN  IF hasattr(self._base_dist[1], "_log_survival_function")
            THEN /\ LogLeq(big_small(self, y).small, big_small(self, y).big)
                 /\ big_small(self, y) =
                        IF LogLess(logsf_y, logcdf_y)
                        THEN [big |-> logsf_y_minus_1, small |-> logsf_y]
                        ELSE [big |-> logcdf_y, small |-> logcdf_y_minus_1]
            ELSE LogLeq(logcdf_y_minus_1, logcdf_y)

\* log_prob on the dual path right of the median: the survival pair is used.
C9_Witness ==
    /\ Returned("log_prob") /\ ~HasLower /\ ~HasUpper /\ last.arg = 2
    /\ hasattr(self._base_dist[1], "_log_survival_function")
    /\ BaseCdf(0) = 0 /\ BaseCdf(2) = Den
    /\ big_small(self, 2) = [big |-> log_zero, small |-> neg_inf]

\* C10: in log_prob with cutoffs, at every whole y (also below the lower and
\* above the upper cutoff), the selected operands big and small are never both
\* -infinity, and the result is never NaN.
C10_NeverInfMinusInf ==
    (/\ Returned("log_prob") /\ IsWholeNumber(last.arg)
     /\ HasLower /\ HasUpper /\ CutoffsWhole /\ L < U
     /\ hasattr(self._base_dist[1], "_log_survival_function")) =>
        /\ ~(big_small(self, last.arg).big = neg_inf /\ big_small(self, last.arg).small = neg_inf)
        /\ ~IsNaN(Result)

\* The sum of prob(j) over the whole numbers j of [lo, hi].
RECURSIVE SumProb(_, _)
SumProb(lo, hi) ==
    IF lo > hi THEN 0 ELSE _prob(self, lo).value[1] + SumProb(lo + 2, hi)

\* C11: sampling and mass describe one distribution: for whole cutoffs L < U
\* (or absent) and every whole j, the base values x that the sampling
\* transform maps to j are exactly the interval whose base probability
\* prob(j) returns: x <= L for j = L, x > U - 1 for j = U, j - 1 < x <= j for
\* the other j, none for j outside [L, U]; so prob is non-negative and sums
\* to 1 over the whole numbers of [L, U].
C11_SamplingMatchesMass ==
    (/\ Returned("prob") /\ IsWholeNumber(last.arg)
     /\ CutoffsWhole /\ CutoffsOrdered) =>
        LET j == last.arg
            mapped == {x \in Coords : _sample_n(self, x) = j}
            outside == (HasLower /\ j < L) \/ (HasUpper /\ j > U)
            atLower == HasLower /\ j = L
            atUpper == HasUpper /\ j = U
        IN  /\ outside => (mapped = {} /\ Result = 0)
            /\ atLower =>
                  /\ mapped = {x \in Coords : x <= L}
                  /\ Result = BaseCdf(L)
            /\ atUpper =>
                  /\ mapped = {x \in Coords : x > U - 2}
                  /\ Result = Den - BaseCdf(U - 2)
            /\ (~outside /\ ~atLower /\ ~atUpper) =>
                  /\ mapped = {x \in Coords : j - 2 < x /\ x <= j}
                  /\ Result = BaseCdf(j) - BaseCdf(j - 2)
            /\ Result >= 0
            /\ (HasLower /\ HasUpper) => SumProb(L, U) = Den

\* prob at the upper cutoff 2 with lower cutoff 0: the draws 1.5, 2, 2.5 and 3
\* are the ones mapped to it, and the mass above 1 is 1/2.
C11_Witness ==
    /\ Returned("prob") /\ HasLower /\ HasUpper /\ L = 0 /\ U = 4
    /\ last.arg = 4 /\ Result = 1
    /\ {x \in Coords : _sample_n(self, x) = 4} = {3, 4, 5, 6}

====
